---- MODULE Spec2Model ----
(***************************************************************************)
(* The streaming decode pipeline of redis-port's "decode" command          *)
(* (cmd/decode.go): Loader -> ipipe -> P decoder workers -> opipe ->       *)
(* Writer -> destination, with the progress loop of Main watching the      *)
(* three counters.                                                         *)
(***************************************************************************)
EXTENDS Integers, Sequences, FiniteSets, TLC

\* ------------------------------------------------------------------ bounds
\* largest args.parallel explored
MaxP == 2
\* longest source stream explored by Spec
MaxN == 3
\* records beyond one full queue in the streams of SpecFull
MaxExtra == 1
\* the destination may reject the k-th entry for k up to this bound
MaxSinkFail == 1
\* longest key explored by SpecText
MaxLen == 3

\* ipipe holds args.parallel*32 entries (Main, line 68)
QueueFactor == 32

\* ------------------------------------------------------------ byte strings
\* byte strings are sequences of byte values 0..255
Dot == 46

\* faulty variant: the lower end of the kept range is excluded
toTextExclusive(p) ==
    [i \in 1..Len(p) |-> IF p[i] > 35 /\ p[i] <= 126 THEN p[i] ELSE Dot]

\* toText: bytes in '#'..'~' are kept, every other byte becomes '.'
toText(p) ==
    [i \in 1..Len(p) |-> IF p[i] >= 35 /\ p[i] <= 126 THEN p[i] ELSE Dot]

\* the character of the standard base64 alphabet for a 6-bit value
B64Char(v) ==
    IF v < 26 THEN 65 + v
    ELSE IF v < 52 THEN 97 + (v - 26)
    ELSE IF v < 62 THEN 48 + (v - 52)
    ELSE IF v = 62 THEN 43 ELSE 47

\* byte i of p, 0 beyond its end
ByteAt(p, i) == IF i <= Len(p) THEN p[i] ELSE 0

\* the four characters encoding the group of up to three bytes starting at i
B64Group(p, i) ==
    LET b1 == ByteAt(p, i)
        b2 == ByteAt(p, i + 1)
        b3 == ByteAt(p, i + 2)
        c1 == B64Char(b1 \div 4)
        c2 == B64Char((b1 % 4) * 16 + (b2 \div 16))
        c3 == IF i + 1 <= Len(p) THEN B64Char((b2 % 16) * 4 + (b3 \div 64)) ELSE 61
        c4 == IF i + 2 <= Len(p) THEN B64Char(b3 % 64) ELSE 61
    IN  <<c1, c2, c3, c4>>

\* toBase64: base64.StdEncoding.EncodeToString
toBase64(p) ==
    LET ngroups == (Len(p) + 2) \div 3
    IN  [j \in 1..(4 * ngroups) |-> B64Group(p, 3 * ((j - 1) \div 4) + 1)[((j - 1) % 4) + 1]]

\* number of decimal digits of a natural number below 10^6
Digits(n) ==
    IF n < 10 THEN 1 ELSE IF n < 100 THEN 2 ELSE IF n < 1000 THEN 3
    ELSE IF n < 10000 THEN 4 ELSE IF n < 100000 THEN 5 ELSE 6

\* bytes json.Marshal emits for one character of a string value
EscLen(c) ==
    IF c \in {60, 62, 38} THEN 6 ELSE IF c \in {34, 92} THEN 2 ELSE 1

RECURSIVE StrLen(_)
\* bytes of a JSON string value: the quotes and the escaped characters
StrLen(s) == IF s = <<>> THEN 2 ELSE EscLen(Head(s)) + StrLen(Tail(s))

\* bytes of a JSON field `"name":value` given the name's and the value's length
FieldLen(nameLen, valueLen) == nameLen + 3 + valueLen

\* bytes of the fields every line starts with: db, type, expireat, key, key64
CommonLen(o) ==
    FieldLen(2, Digits(o.DB)) + FieldLen(4, Len(o.Type) + 2)
    + FieldLen(8, Digits(o.ExpireAt)) + FieldLen(3, StrLen(o.Key))
    + FieldLen(5, StrLen(o.Key64))

\* bytes of the type-specific fields of a line
SpecificLen(o) ==
    CASE o.Type = "string" -> FieldLen(7, StrLen(o.Value64))
      [] o.Type = "list"   -> FieldLen(5, Digits(o.Index)) + FieldLen(7, StrLen(o.Value64))
      [] o.Type = "hash"   -> FieldLen(5, StrLen(o.Field)) + FieldLen(7, StrLen(o.Field64))
                              + FieldLen(7, StrLen(o.Value64))
      [] o.Type = "set"    -> FieldLen(6, StrLen(o.Member)) + FieldLen(8, StrLen(o.Member64))
      [] o.Type = "zset"   -> FieldLen(6, StrLen(o.Member)) + FieldLen(8, StrLen(o.Member64))
                              + FieldLen(5, Digits(o.Score.v))

\* number of fields of a line of the given type
NFields(t) ==
    CASE t = "string" -> 6 [] t = "list" -> 7 [] t = "hash" -> 8
      [] t = "set" -> 7 [] t = "zset" -> 8

\* toJson followed by "\n": byte length of one output line
LineLen(o) == 2 + (NFields(o.Type) - 1) + CommonLen(o) + SpecificLen(o) + 1

RECURSIVE ByteLen(_)
\* len(s) of a buffer holding the given lines
ByteLen(lines) == IF lines = <<>> THEN 0 ELSE LineLen(Head(lines)) + ByteLen(Tail(lines))

\* ---------------------------------------------------------- source streams
\* the dumps the source streams are built from: DB, Key, ExpireAt and the
\* value DecodeDump yields for the entry's Value; a zset score is a float64,
\* finite with the value v or not finite (an infinity or NaN)
Catalog ==
    << [DB |-> 0, Key |-> <<102, 111, 111>>, ExpireAt |-> 0,
        Value |-> [kind |-> "string", elems |-> <<98, 97, 114>>]],
       [DB |-> 0, Key |-> <<109, 108>>, ExpireAt |-> 0,
        Value |-> [kind |-> "list", elems |-> << <<97>>, <<98>> >>]],
       [DB |-> 1, Key |-> <<104, 1>>, ExpireAt |-> 15,
        Value |-> [kind |-> "hash",
                   elems |-> << [Field |-> <<102, 1>>, Value |-> <<118>>] >>]],
       [DB |-> 0, Key |-> <<115, 34, 60>>, ExpireAt |-> 0,
        Value |-> [kind |-> "set", elems |-> << <<120, 127>>, <<35>> >>]],
       [DB |-> 2, Key |-> <<122>>, ExpireAt |-> 0,
        Value |-> [kind |-> "zset",
                   elems |-> << [Member |-> <<126>>, Score |-> [finite |-> TRUE, v |-> 1]],
                                [Member |-> <<109, 92>>, Score |-> [finite |-> TRUE, v |-> 12]] >>]],
       [DB |-> 0, Key |-> <<101, 108>>, ExpireAt |-> 0,
        Value |-> [kind |-> "list", elems |-> << >>]],
       [DB |-> 0, Key |-> <<>>, ExpireAt |-> 100,
        Value |-> [kind |-> "string", elems |-> <<>>]],
       [DB |-> 0, Key |-> <<104, 50>>, ExpireAt |-> 0,
        Value |-> [kind |-> "hash",
                   elems |-> << [Field |-> <<97>>, Value |-> <<1, 2, 3, 4>>],
                                [Field |-> <<98>>, Value |-> <<>>],
                                [Field |-> <<99>>, Value |-> <<255>>] >>]],
       [DB |-> 0, Key |-> <<101, 115>>, ExpireAt |-> 0,
        Value |-> [kind |-> "set", elems |-> << >>]],
       [DB |-> 0, Key |-> <<122, 105>>, ExpireAt |-> 0,
        Value |-> [kind |-> "zset",
                   elems |-> << [Member |-> <<97>>, Score |-> [finite |-> TRUE, v |-> 3]],
                                [Member |-> <<98>>, Score |-> [finite |-> FALSE, v |-> 0]] >>]] >>

\* where in the catalog a stream may start
Bases == {1, 8}

\* a payload DecodeDump rejects
Corrupt == [kind |-> "corrupt", elems |-> <<>>]

\* the i-th entry of the stream starting at catalog position base whose
\* bad-th payload is corrupted; seq is the entry's position in the source
StreamEntry(base, bad, i) ==
    LET c == Catalog[((base + i - 2) % Len(Catalog)) + 1]
    IN  [seq |-> i, DB |-> c.DB, Key |-> c.Key, ExpireAt |-> c.ExpireAt,
         Value |-> IF i = bad THEN Corrupt ELSE c.Value]

Stream(n, base, bad) == [i \in 1..n |-> StreamEntry(base, bad, i)]

Streams == {Stream(n, base, bad) : n \in 0..MaxN, base \in Bases, bad \in 0..1}

\* n copies of the c-th catalog entry
UniformStream(n, c) == [i \in 1..n |-> [StreamEntry(c, 0, 1) EXCEPT !.seq = i]]

\* every catalog entry as a source of its own
DataStreams == {Stream(1, c, 0) : c \in 1..Len(Catalog)}

FullStreams == {UniformStream(QueueFactor + k, 7) : k \in 1..MaxExtra}

\* a source of one record more than both queues, the worker and the Writer
\* can hold together when P = 1
BothStreams == {UniformStream(2 * QueueFactor + 3, 7)}

\* byte values on both sides of each end of the range toText keeps
TextBytes == {34, 35, 65, 126, 127}

\* every byte sequence over TextBytes of up to MaxLen bytes
Keys == UNION {[1..n -> TextBytes] : n \in 0..MaxLen}

\* a single set entry under each of these keys
TextStreams == {<<[StreamEntry(4, 0, 1) EXCEPT !.Key = k]>> : k \in Keys}

\* rdb.DecodeDump: the typed value of a payload, or an error
DecodeDump(value) ==
    IF value.kind = "corrupt" THEN [err |-> TRUE, o |-> value]
    ELSE [err |-> FALSE, o |-> value]

\* bytes of the source an entry occupies
EntrySize(e) == 1 + Len(e.Key)

\* ------------------------------------------------------------- flattening
\* the fields every line of entry e starts with
Common(e, type) ==
    [seq |-> e.seq, DB |-> e.DB, Type |-> type, ExpireAt |-> e.ExpireAt,
     Key |-> toText(e.Key), Key64 |-> toBase64(e.Key)]

StringLine(e, obj) == Common(e, "string") @@ [Value64 |-> toBase64(obj)]

ListLine(e, i, ele) == Common(e, "list") @@ [Index |-> i, Value64 |-> toBase64(ele)]

HashLine(e, ele) ==
    Common(e, "hash") @@ [Field |-> toText(ele.Field), Field64 |-> toBase64(ele.Field),
                          Value64 |-> toBase64(ele.Value)]

SetLine(e, mem) == Common(e, "set") @@ [Member |-> toText(mem), Member64 |-> toBase64(mem)]

ZSetLine(e, ele) ==
    Common(e, "zset") @@ [Member |-> toText(ele.Member), Member64 |-> toBase64(ele.Member),
                          Score |-> ele.Score]

\* faulty variant: the elements of a hash are visited last to first
EncodeBackwards(e, o) ==
    CASE o.kind = "string" -> << StringLine(e, o.elems) >>
      [] o.kind = "list" -> [i \in 1..Len(o.elems) |-> ListLine(e, i - 1, o.elems[i])]
      [] o.kind = "hash" ->
           [i \in 1..Len(o.elems) |-> HashLine(e, o.elems[Len(o.elems) + 1 - i])]
      [] o.kind = "set"  -> [i \in 1..Len(o.elems) |-> SetLine(e, o.elems[i])]
      [] o.kind = "zset" -> [i \in 1..Len(o.elems) |-> ZSetLine(e, o.elems[i])]

\* the objects the type switch of decoderMain builds, in order, for entry e
\* decoded to o
Encode(e, o) ==
    CASE o.kind = "string" -> << StringLine(e, o.elems) >>
      [] o.kind = "list" -> [i \in 1..Len(o.elems) |-> ListLine(e, i - 1, o.elems[i])]
      [] o.kind = "hash" -> [i \in 1..Len(o.elems) |-> HashLine(e, o.elems[i])]
      [] o.kind = "set"  -> [i \in 1..Len(o.elems) |-> SetLine(e, o.elems[i])]
      [] o.kind = "zset" -> [i \in 1..Len(o.elems) |-> ZSetLine(e, o.elems[i])]

\* a float64 json.Marshal can encode: NaN and the infinities are unsupported
Finite(score) == score.finite

\* toJson: json.Marshal of one object; the text is kept as the object's
\* fields (LineLen gives its length), err is Marshal's error
toJson(o) ==
    [err |-> "Score" \in DOMAIN o /\ ~Finite(o.Score), s |-> o]

\* the index of the first object toJson fails on, 0 if there is none
FirstFailure(objs) ==
    LET bad == {i \in 1..Len(objs) : toJson(objs[i]).err}
    IN  IF bad = {} THEN 0 ELSE CHOOSE i \in bad : \A j \in bad : i <= j

\* what b holds after fmt.Fprintf has run for the first n objects
Lines(objs, n) == [i \in 1..n |-> toJson(objs[i]).s]

\* ------------------------------------------------------------------ state
VARIABLES
    parallel,     \* args.parallel
    source,       \* the entries the source holds, in order
    sinkFailAt,   \* the destination rejects its k-th entry (0: never)
    nread,        \* entries the Loader has read and pushed
    rbytes,       \* cmd.rbytes
    ipipe,        \* the entries queued on ipipe
    ipipeClosed,  \* the Loader has closed ipipe
    worker,       \* per decoder goroutine: pc, the entry e, the buffer b
    nentry,       \* cmd.nentry
    group,        \* tokens queued on the group channel
    joined,       \* the loop counter i of the goroutine receiving from group
    barrier,      \* that goroutine: "collect" or "exited"
    ncloses,      \* how often close(opipe) has run
    opipe,        \* the strings queued on opipe
    writer,       \* the writing goroutine: pc and the string s
    wbytes,       \* cmd.wbytes
    wbuf,         \* what the bufio.Writer buffers
    dest,         \* the lines the destination has received
    nflushed,     \* strings flushed to the destination
    written,      \* the seq of each string flushed, in order
    waitClosed,   \* close(wait) has run
    monitor,      \* the loop of Main: pc, done
    logged,       \* what Main has logged since it saw wait closed
    exit          \* "running", "ok" (Main returned) or "fatal" (PanicError)

vars == <<parallel, source, sinkFailAt, nread, rbytes, ipipe, ipipeClosed, worker,
          nentry, group, joined, barrier, ncloses, opipe, writer, wbytes, wbuf, dest,
          nflushed, written, waitClosed, monitor, logged, exit>>

config == <<parallel, source, sinkFailAt>>
loaderVars == <<nread, rbytes, ipipeClosed>>
barrierVars == <<joined, barrier, ncloses>>
writerVars == <<writer, wbytes, wbuf, dest, nflushed, written, waitClosed>>
monitorVars == <<monitor, logged>>

Workers == 1..parallel

\* faulty variant: the channels are made one slot too large
CapPlusOne == parallel * QueueFactor + 1

\* cap(ipipe) = args.parallel*32, and cap(opipe) = cap(ipipe)
Cap == parallel * QueueFactor

NoEntry == [seq |-> 0]
NoString == [seq |-> 0, lines |-> <<>>]

InitWith(ps, streams, fails) ==
    /\ parallel \in ps
    /\ source \in streams
    /\ sinkFailAt \in fails
    /\ nread = 0
    /\ rbytes = 0
    /\ ipipe = <<>>
    /\ ipipeClosed = FALSE
    /\ worker = [w \in Workers |-> [pc |-> "range", e |-> NoEntry, b |-> <<>>]]
    /\ nentry = 0
    /\ group = 0
    /\ joined = 0
    /\ barrier = "collect"
    /\ ncloses = 0
    /\ opipe = <<>>
    /\ writer = [pc |-> "range", s |-> NoString]
    /\ wbytes = 0
    /\ wbuf = <<>>
    /\ dest = <<>>
    /\ nflushed = 0
    /\ written = <<>>
    /\ waitClosed = FALSE
    /\ monitor = [pc |-> "select", done |-> FALSE]
    /\ logged = <<>>
    /\ exit = "running"

Init == InitWith(1..MaxP, Streams, 0..MaxSinkFail)

\* log.PanicError / log.Panicf: the diagnostic, then the process is gone
PanicError == exit' = "fatal"

Running == exit = "running"

\* ----------------------------------------------------------------- Loader
\* newRDBLoader's goroutine reads the next entry and sends it on ipipe
LoaderPush ==
    /\ Running
    /\ nread < Len(source)
    /\ Len(ipipe) < Cap
    /\ nread' = nread + 1
    /\ rbytes' = rbytes + EntrySize(source[nread + 1])
    /\ ipipe' = Append(ipipe, source[nread + 1])
    /\ UNCHANGED <<config, ipipeClosed, worker, nentry, group, barrierVars, opipe,
                   writerVars, monitorVars, exit>>

\* at the end of the source the Loader closes ipipe
LoaderClose ==
    /\ Running
    /\ nread = Len(source)
    /\ ~ipipeClosed
    /\ ipipeClosed' = TRUE
    /\ UNCHANGED <<config, nread, rbytes, ipipe, worker, nentry, group, barrierVars,
                   opipe, writerVars, monitorVars, exit>>

\* ---------------------------------------------------------------- workers
\* for e := range ipipe: an entry is received
WorkerRecv(w) ==
    /\ Running
    /\ worker[w].pc = "range"
    /\ ipipe # <<>>
    /\ worker' = [worker EXCEPT ![w] = [pc |-> "decode", e |-> Head(ipipe), b |-> <<>>]]
    /\ ipipe' = Tail(ipipe)
    /\ UNCHANGED <<config, loaderVars, nentry, group, barrierVars, opipe, writerVars,
                   monitorVars, exit>>

\* faulty variant: the loop over ipipe ends as soon as ipipe is empty
WorkerExitOnEmpty(w) ==
    /\ Running
    /\ worker[w].pc = "range"
    /\ ipipe = <<>>
    /\ worker' = [worker EXCEPT ![w].pc = "exited"]
    /\ group' = group + 1
    /\ UNCHANGED <<config, loaderVars, ipipe, nentry, barrierVars, opipe, writerVars,
                   monitorVars, exit>>

\* for e := range ipipe ends on the closed, empty channel; decoderMain returns
\* and the deferred function sends on group, which never blocks (cap P)
WorkerExit(w) ==
    /\ Running
    /\ worker[w].pc = "range"
    /\ ipipe = <<>>
    /\ ipipeClosed
    /\ worker' = [worker EXCEPT ![w].pc = "exited"]
    /\ group' = group + 1
    /\ UNCHANGED <<config, loaderVars, ipipe, nentry, barrierVars, opipe, writerVars,
                   monitorVars, exit>>

\* faulty variant: on a decode error the worker goroutine returns, the process lives
WorkerDecodeReturn(w) ==
    /\ Running
    /\ worker[w].pc = "decode"
    /\ LET r == DecodeDump(worker[w].e.Value)
           objs == Encode(worker[w].e, r.o)
       IN  IF r.err
           THEN /\ worker' = [worker EXCEPT ![w].pc = "exited"]
                /\ group' = group + 1
           ELSE /\ worker' = [worker EXCEPT ![w].pc = "incr",
                                            ![w].b = Lines(objs, Len(objs))]
                /\ UNCHANGED group
    /\ UNCHANGED <<config, loaderVars, ipipe, nentry, barrierVars, opipe,
                   writerVars, monitorVars, exit>>

\* faulty variant: on a decode error the worker skips the entry and goes on
WorkerDecodeSkip(w) ==
    /\ Running
    /\ worker[w].pc = "decode"
    /\ LET r == DecodeDump(worker[w].e.Value)
           objs == Encode(worker[w].e, r.o)
       IN  IF r.err
           THEN worker' = [worker EXCEPT ![w] = [pc |-> "range", e |-> NoEntry, b |-> <<>>]]
           ELSE worker' = [worker EXCEPT ![w].pc = "incr",
                                         ![w].b = Lines(objs, Len(objs))]
    /\ UNCHANGED <<config, loaderVars, ipipe, nentry, group, barrierVars, opipe,
                   writerVars, monitorVars, exit>>

\* DecodeDump, the check of err and the type switch that fills b, line by
\* line; a failure of DecodeDump or of toJson is fatal
WorkerDecode(w) ==
    /\ Running
    /\ worker[w].pc = "decode"
    /\ LET r == DecodeDump(worker[w].e.Value)
           objs == Encode(worker[w].e, r.o)
           k == FirstFailure(objs)
       IN  IF r.err
           THEN /\ PanicError
                /\ worker' = [worker EXCEPT ![w].pc = "panic"]
           ELSE IF k # 0
           THEN /\ PanicError
                /\ worker' = [worker EXCEPT ![w].pc = "panic",
                                            ![w].b = Lines(objs, k - 1)]
           ELSE /\ worker' = [worker EXCEPT ![w].pc = "incr",
                                            ![w].b = Lines(objs, Len(objs))]
                /\ UNCHANGED exit
    /\ UNCHANGED <<config, loaderVars, ipipe, nentry, group, barrierVars, opipe,
                   writerVars, monitorVars>>

\* faulty variant: an entry that yields no line is not counted
WorkerIncrSkipEmpty(w) ==
    /\ Running
    /\ worker[w].pc = "incr"
    /\ nentry' = IF worker[w].b = <<>> THEN nentry ELSE nentry + 1
    /\ worker' = [worker EXCEPT ![w].pc = "send"]
    /\ UNCHANGED <<config, loaderVars, ipipe, group, barrierVars, opipe, writerVars,
                   monitorVars, exit>>

\* faulty variant: the counter counts output lines, not entries
WorkerIncrPerLine(w) ==
    /\ Running
    /\ worker[w].pc = "incr"
    /\ nentry' = nentry + Len(worker[w].b)
    /\ worker' = [worker EXCEPT ![w].pc = "send"]
    /\ UNCHANGED <<config, loaderVars, ipipe, group, barrierVars, opipe, writerVars,
                   monitorVars, exit>>

\* cmd.nentry.Incr()
WorkerIncr(w) ==
    /\ Running
    /\ worker[w].pc = "incr"
    /\ nentry' = nentry + 1
    /\ worker' = [worker EXCEPT ![w].pc = "send"]
    /\ UNCHANGED <<config, loaderVars, ipipe, group, barrierVars, opipe, writerVars,
                   monitorVars, exit>>

\* faulty variant: the send does not wait for room on opipe
WorkerSendNoWait(w) ==
    /\ Running
    /\ worker[w].pc = "send"
    /\ IF ncloses > 0
       THEN /\ PanicError
            /\ worker' = [worker EXCEPT ![w].pc = "panic"]
            /\ UNCHANGED opipe
       ELSE /\ opipe' = Append(opipe, [seq |-> worker[w].e.seq, lines |-> worker[w].b])
            /\ worker' = [worker EXCEPT ![w] = [pc |-> "range", e |-> NoEntry, b |-> <<>>]]
            /\ UNCHANGED exit
    /\ UNCHANGED <<config, loaderVars, ipipe, nentry, group, barrierVars, writerVars,
                   monitorVars>>

\* faulty variant: every line of an entry is sent as a string of its own
WorkerSendPerLine(w) ==
    /\ Running
    /\ worker[w].pc = "send"
    /\ IF ncloses > 0
       THEN /\ PanicError
            /\ worker' = [worker EXCEPT ![w].pc = "panic"]
            /\ UNCHANGED opipe
       ELSE IF worker[w].b = <<>>
       THEN /\ worker' = [worker EXCEPT ![w] = [pc |-> "range", e |-> NoEntry, b |-> <<>>]]
            /\ UNCHANGED <<opipe, exit>>
       ELSE /\ Len(opipe) < Cap
            /\ opipe' = Append(opipe, [seq |-> worker[w].e.seq,
                                        lines |-> << Head(worker[w].b) >>])
            /\ worker' = [worker EXCEPT ![w].b = Tail(worker[w].b)]
            /\ UNCHANGED exit
    /\ UNCHANGED <<config, loaderVars, ipipe, nentry, group, barrierVars, writerVars,
                   monitorVars>>

\* faulty variant: the string of an entry is sent twice
WorkerSendTwice(w) ==
    /\ Running
    /\ worker[w].pc = "send"
    /\ IF ncloses > 0
       THEN /\ PanicError
            /\ worker' = [worker EXCEPT ![w].pc = "panic"]
            /\ UNCHANGED opipe
       ELSE /\ Len(opipe) + 1 < Cap
            /\ opipe' = opipe \o << [seq |-> worker[w].e.seq, lines |-> worker[w].b],
                                    [seq |-> worker[w].e.seq, lines |-> worker[w].b] >>
            /\ worker' = [worker EXCEPT ![w] = [pc |-> "range", e |-> NoEntry, b |-> <<>>]]
            /\ UNCHANGED exit
    /\ UNCHANGED <<config, loaderVars, ipipe, nentry, group, barrierVars, writerVars,
                   monitorVars>>

\* opipe <- b.String(): blocks while opipe is full, panics once it is closed
WorkerSend(w) ==
    /\ Running
    /\ worker[w].pc = "send"
    /\ IF ncloses > 0
       THEN /\ PanicError
            /\ worker' = [worker EXCEPT ![w].pc = "panic"]
            /\ UNCHANGED opipe
       ELSE /\ Len(opipe) < Cap
            /\ opipe' = Append(opipe, [seq |-> worker[w].e.seq, lines |-> worker[w].b])
            /\ worker' = [worker EXCEPT ![w] = [pc |-> "range", e |-> NoEntry, b |-> <<>>]]
            /\ UNCHANGED exit
    /\ UNCHANGED <<config, loaderVars, ipipe, nentry, group, barrierVars, writerVars,
                   monitorVars>>

\* ---------------------------------------------------------------- barrier
\* <-group, once per worker
BarrierRecv ==
    /\ Running
    /\ barrier = "collect"
    /\ joined < parallel
    /\ group > 0
    /\ group' = group - 1
    /\ joined' = joined + 1
    /\ UNCHANGED <<config, loaderVars, ipipe, worker, nentry, barrier, ncloses, opipe,
                   writerVars, monitorVars, exit>>

\* faulty variant: the loop over group stops one token short
BarrierCloseEarly ==
    /\ Running
    /\ barrier = "collect"
    /\ joined >= parallel - 1
    /\ barrier' = "exited"
    /\ ncloses' = ncloses + 1
    /\ UNCHANGED <<config, loaderVars, ipipe, worker, nentry, group, joined, opipe,
                   writerVars, monitorVars, exit>>

\* the loop over group is over: the goroutine returns, defer close(opipe)
BarrierClose ==
    /\ Running
    /\ barrier = "collect"
    /\ joined = parallel
    /\ barrier' = "exited"
    /\ ncloses' = ncloses + 1
    /\ UNCHANGED <<config, loaderVars, ipipe, worker, nentry, group, joined, opipe,
                   writerVars, monitorVars, exit>>

\* ----------------------------------------------------------------- Writer
\* the destination rejects the string being written
SinkRejects == sinkFailAt # 0 /\ nflushed + 1 = sinkFailAt

\* faulty variant: the Writer receives the string queued last
WriterRecvLast ==
    /\ Running
    /\ writer.pc = "range"
    /\ opipe # <<>>
    /\ writer' = [pc |-> "add", s |-> opipe[Len(opipe)]]
    /\ opipe' = SubSeq(opipe, 1, Len(opipe) - 1)
    /\ UNCHANGED <<config, loaderVars, ipipe, worker, nentry, group, barrierVars,
                   wbytes, wbuf, dest, nflushed, written, waitClosed, monitorVars, exit>>

\* for s := range opipe: a string is received
WriterRecv ==
    /\ Running
    /\ writer.pc = "range"
    /\ opipe # <<>>
    /\ writer' = [pc |-> "add", s |-> Head(opipe)]
    /\ opipe' = Tail(opipe)
    /\ UNCHANGED <<config, loaderVars, ipipe, worker, nentry, group, barrierVars,
                   wbytes, wbuf, dest, nflushed, written, waitClosed, monitorVars, exit>>

\* faulty variant: the Writer stops at the first moment it finds opipe empty
WriterExitOnEmpty ==
    /\ Running
    /\ writer.pc = "range"
    /\ opipe = <<>>
    /\ writer' = [writer EXCEPT !.pc = "exited"]
    /\ waitClosed' = TRUE
    /\ UNCHANGED <<config, loaderVars, ipipe, worker, nentry, group, barrierVars,
                   opipe, wbytes, wbuf, dest, nflushed, written, monitorVars, exit>>

\* for s := range opipe ends on the closed, empty channel; defer close(wait)
WriterExit ==
    /\ Running
    /\ writer.pc = "range"
    /\ opipe = <<>>
    /\ ncloses > 0
    /\ writer' = [writer EXCEPT !.pc = "exited"]
    /\ waitClosed' = TRUE
    /\ UNCHANGED <<config, loaderVars, ipipe, worker, nentry, group, barrierVars,
                   opipe, wbytes, wbuf, dest, nflushed, written, monitorVars, exit>>

\* faulty variant: the counter counts lines, not bytes
WriterAddLines ==
    /\ Running
    /\ writer.pc = "add"
    /\ wbytes' = wbytes + Len(writer.s.lines)
    /\ writer' = [writer EXCEPT !.pc = "write"]
    /\ UNCHANGED <<config, loaderVars, ipipe, worker, nentry, group, barrierVars,
                   opipe, wbuf, dest, nflushed, written, waitClosed, monitorVars, exit>>

\* cmd.wbytes.Add(int64(len(s)))
WriterAdd ==
    /\ Running
    /\ writer.pc = "add"
    /\ wbytes' = wbytes + ByteLen(writer.s.lines)
    /\ writer' = [writer EXCEPT !.pc = "write"]
    /\ UNCHANGED <<config, loaderVars, ipipe, worker, nentry, group, barrierVars,
                   opipe, wbuf, dest, nflushed, written, waitClosed, monitorVars, exit>>

\* writer.WriteString(s): s is buffered; a string the buffer cannot hold is
\* written through, and a destination that rejects it fails the call
WriterWrite ==
    /\ Running
    /\ writer.pc = "write"
    /\ \E through \in BOOLEAN :
         IF through /\ SinkRejects
         THEN /\ PanicError
              /\ writer' = [writer EXCEPT !.pc = "panic"]
              /\ UNCHANGED wbuf
         ELSE /\ wbuf' = wbuf \o writer.s.lines
              /\ writer' = [writer EXCEPT !.pc = "flush"]
              /\ UNCHANGED exit
    /\ UNCHANGED <<config, loaderVars, ipipe, worker, nentry, group, barrierVars,
                   opipe, wbytes, dest, nflushed, written, waitClosed, monitorVars>>

\* flushWriter(writer): the buffer reaches the destination, or the run dies
WriterFlush ==
    /\ Running
    /\ writer.pc = "flush"
    /\ IF SinkRejects
       THEN /\ PanicError
            /\ writer' = [writer EXCEPT !.pc = "panic"]
            /\ UNCHANGED <<wbuf, dest, nflushed, written>>
       ELSE /\ dest' = dest \o wbuf
            /\ wbuf' = <<>>
            /\ nflushed' = nflushed + 1
            /\ written' = Append(written, writer.s.seq)
            /\ writer' = [pc |-> "range", s |-> NoString]
            /\ UNCHANGED exit
    /\ UNCHANGED <<config, loaderVars, ipipe, worker, nentry, group, barrierVars,
                   opipe, wbytes, waitClosed, monitorVars>>

\* ------------------------------------------------------- progress monitor
\* cmd.Stat()
Stat == [rbytes |-> rbytes, wbytes |-> wbytes, nentry |-> nentry]

\* faulty variant: the loop takes the timer for the completion signal
MonitorWaitEarly ==
    /\ Running
    /\ monitor.pc = "select"
    /\ monitor' = [pc |-> "stat", done |-> TRUE]
    /\ UNCHANGED <<config, loaderVars, ipipe, worker, nentry, group, barrierVars,
                   opipe, writerVars, logged, exit>>

\* select: case <-wait
MonitorWait ==
    /\ Running
    /\ monitor.pc = "select"
    /\ waitClosed
    /\ monitor' = [pc |-> "stat", done |-> TRUE]
    /\ UNCHANGED <<config, loaderVars, ipipe, worker, nentry, group, barrierVars,
                   opipe, writerVars, logged, exit>>

\* select: case <-time.After(time.Second), then the status line of that
\* iteration (done is still false, so the loop goes on)
MonitorTimeout ==
    /\ Running
    /\ monitor.pc = "select"
    /\ monitor' = [monitor EXCEPT !.pc = "select"]
    /\ UNCHANGED <<config, loaderVars, ipipe, worker, nentry, group, barrierVars,
                   opipe, writerVars, logged, exit>>

\* faulty variant: sampling the counters resets the records counter
MonitorStatReset ==
    /\ Running
    /\ monitor.pc = "stat"
    /\ logged' = Append(logged, [msg |-> "decode: ", stat |-> Stat])
    /\ nentry' = 0
    /\ monitor' = [monitor EXCEPT !.pc = "after"]
    /\ UNCHANGED <<config, loaderVars, ipipe, worker, group, barrierVars,
                   opipe, writerVars, exit>>

\* the status line of the iteration that saw wait closed; the loop ends
MonitorStat ==
    /\ Running
    /\ monitor.pc = "stat"
    /\ logged' = Append(logged, [msg |-> "decode: ", stat |-> Stat])
    /\ monitor' = [monitor EXCEPT !.pc = "after"]
    /\ UNCHANGED <<config, loaderVars, ipipe, worker, nentry, group, barrierVars,
                   opipe, writerVars, exit>>

\* log.Info("decode: done"); Main returns and the process exits with 0
MonitorDone ==
    /\ Running
    /\ monitor.pc = "after"
    /\ logged' = Append(logged, [msg |-> "decode: done", stat |-> Stat])
    /\ monitor' = [monitor EXCEPT !.pc = "returned"]
    /\ exit' = "ok"
    /\ UNCHANGED <<config, loaderVars, ipipe, worker, nentry, group, barrierVars,
                   opipe, writerVars>>

\* ------------------------------------------------------------------- Next
Loader == LoaderPush \/ LoaderClose

Worker(w) ==
    WorkerRecv(w) \/ WorkerExit(w) \/ WorkerDecode(w) \/ WorkerIncr(w) \/ WorkerSend(w)

Barrier == BarrierRecv \/ BarrierClose

Writer == WriterRecv \/ WriterExit \/ WriterAdd \/ WriterWrite \/ WriterFlush

Monitor == MonitorWait \/ MonitorTimeout \/ MonitorStat \/ MonitorDone

Next ==
    \/ Loader
    \/ \E w \in Workers : Worker(w)
    \/ Barrier
    \/ Writer
    \/ Monitor

Spec == Init /\ [][Next]_vars

\* streams that overfill one queue, a single worker, a destination that works
InitFull == InitWith({1}, FullStreams, {0})

SpecFull == InitFull /\ [][Next]_vars

\* one worker flattening each kind of entry the catalog has
InitData == InitWith({1}, DataStreams, {0})

SpecData == InitData /\ [][Next]_vars

\* one worker, a source that fills ipipe and opipe at the same time
InitBoth == InitWith({1}, BothStreams, {0})

SpecBoth == InitBoth /\ [][Next]_vars

\* one worker building the text form of each key
InitText == InitWith({1}, TextStreams, {0})

SpecText == InitText /\ [][Next]_vars

\* every goroutine that can take a step eventually takes one; a select that
\* finds wait closed takes that case, the fresh timer not having fired yet
Fairness ==
    /\ WF_vars(Loader)
    /\ \A w \in 1..MaxP : WF_vars(w \in Workers /\ Worker(w))
    /\ WF_vars(Barrier)
    /\ WF_vars(Writer)
    /\ WF_vars(MonitorStat \/ MonitorDone)
    /\ SF_vars(MonitorWait)

LiveSpec == Init /\ [][Next]_vars /\ Fairness

\* ================================================================= claims
\* number of OutputItems the data model gives a decoded value
ItemCount(v) == IF v.kind = "string" THEN 1 ELSE Len(v.elems)

RECURSIVE TotalItems(_)
\* number of OutputItems the data model gives a whole stream
TotalItems(s) ==
    IF s = <<>> THEN 0 ELSE ItemCount(DecodeDump(Head(s).Value).o) + TotalItems(Tail(s))

\* C1: once the Writer has signalled completion (wait is closed) the
\* records-decoded counter equals the number N of entries of the source,
\* whatever the number of workers and their interleaving.
C1_CounterEqualsN == waitClosed => nentry = Len(source)

C1_Witness == waitClosed /\ parallel >= 2 /\ Len(source) >= 2 /\ nentry = Len(source)

\* the i-th line of b is built from the i-th element of the decoded value v
BuiltFrom(v, line, i) ==
    CASE v.kind = "string" -> line.Type = "string" /\ line.Value64 = toBase64(v.elems)
      [] v.kind = "list" -> /\ line.Type = "list"
                            /\ line.Index = i - 1
                            /\ line.Value64 = toBase64(v.elems[i])
      [] v.kind = "hash" -> /\ line.Type = "hash"
                            /\ line.Field64 = toBase64(v.elems[i].Field)
                            /\ line.Value64 = toBase64(v.elems[i].Value)
      [] v.kind = "set"  -> line.Type = "set" /\ line.Member64 = toBase64(v.elems[i])
      [] v.kind = "zset" -> /\ line.Type = "zset"
                            /\ line.Member64 = toBase64(v.elems[i].Member)
                            /\ line.Score = v.elems[i].Score

\* a worker is done with the switch for an entry DecodeDump accepted
Flattened(w) ==
    /\ worker[w].pc \in {"incr", "send", "panic"}
    /\ ~DecodeDump(worker[w].e.Value).err

\* C2: for every entry DecodeDump accepts, the worker produces exactly 1
\* line for a string and exactly K lines for a list, hash, set or zset of K
\* elements, the i-th line built from the i-th element (a list line carrying
\* the index i counted from 0).
C2_ItemsPerRecord ==
    \A w \in Workers :
        Flattened(w) =>
            LET v == DecodeDump(worker[w].e.Value).o
                b == worker[w].b
            IN  /\ Len(b) = ItemCount(v)
                /\ \A i \in 1..Len(b) : BuiltFrom(v, b[i], i)

\* C3: a complete run ends with a records-decoded counter and a number of
\* lines at the destination that depend on the source alone: two complete
\* runs over the same source with different numbers of workers end with the
\* same two totals.
C3_TotalsIndependentOfP ==
    waitClosed => nentry = Len(source) /\ Len(dest) = TotalItems(source)

C3_Witness ==
    /\ waitClosed
    /\ parallel >= 2
    /\ Len(source) >= 3
    /\ Len(dest) = TotalItems(source)
    /\ \E i, j \in 1..Len(dest) : i < j /\ dest[i].seq > dest[j].seq

\* every payload of the source is one DecodeDump accepts
ValidStream == \A i \in 1..Len(source) : ~DecodeDump(source[i].Value).err

\* the pipeline is Done: ipipe closed and drained, all workers gone, opipe
\* closed, wait closed, "decode: done" logged
Done ==
    /\ ipipeClosed /\ ipipe = <<>>
    /\ \A w \in Workers : worker[w].pc = "exited"
    /\ ncloses > 0
    /\ waitClosed
    /\ logged # <<>> /\ logged[Len(logged)].msg = "decode: done"

\* C4: for every P and every stream of entries DecodeDump accepts, written
\* to a destination that accepts every write, fair scheduling of all the
\* goroutines leads to Done.
C4_EventuallyDone == (ValidStream /\ sinkFailAt = 0) => <>Done

\* every object built for the source is one json.Marshal encodes
EncodableStream ==
    \A i \in 1..Len(source) :
        FirstFailure(Encode(source[i], DecodeDump(source[i].Value).o)) = 0

\* the runs of C4 without the entries toJson fails on do reach Done
DoneWhenEncodable == (ValidStream /\ EncodableStream /\ sinkFailAt = 0) => <>Done

\* C5: opipe is closed at most once and only when every worker has
\* exited, so no worker is left that could send on the closed channel.
C5_CloseAfterWorkers ==
    /\ ncloses <= 1
    /\ ncloses > 0 => \A w \in Workers : worker[w].pc = "exited"

C5_Witness ==
    /\ ncloses = 1
    /\ parallel >= 2
    /\ Len(source) >= 2
    /\ opipe # <<>>

\* strings pushed onto opipe so far: those queued, the one the Writer
\* holds, those flushed
Pushed == Len(opipe) + (IF writer.s.seq # 0 THEN 1 ELSE 0) + nflushed

\* workers that have counted their entry and not yet sent its buffer
Counted == {w \in Workers : worker[w].pc = "send"}

\* C6 as stated: the records-decoded counter is at most the number of
\* entries whose output has been pushed onto opipe.
C6_CounterAtMostPushed == nentry <= Pushed

\* C6 amended: a worker increments the counter once per entry and only then
\* sends the entry's buffer, so the counter is the number of buffers pushed
\* plus the number of workers between the increment and the send.
C6_CounterLeadsPushed == nentry = Pushed + Cardinality(Counted)

C6_Witness == Cardinality(Counted) = 2 /\ nentry = Pushed + 2 /\ Pushed >= 1

\* the string the Writer has added to wbytes and not yet flushed
Unflushed ==
    IF writer.pc \in {"write", "flush", "panic"} THEN ByteLen(writer.s.lines) ELSE 0

\* C7 as stated: the bytes-written counter is at most the byte length of
\* what the destination has received.
C7_CounterAtMostWritten == wbytes <= ByteLen(dest)

\* C7 amended: the Writer adds a string's length before it writes it, so
\* the counter is the byte length the destination has received plus the
\* length of the string added and not yet flushed - also once a write failed.
C7_CounterLeadsWritten == wbytes = ByteLen(dest) + Unflushed

C7_Witness == writer.pc = "panic" /\ wbytes > ByteLen(dest)

\* worker w is at a DecodeDump that fails
DecodeFails(w) == worker[w].pc = "decode" /\ DecodeDump(worker[w].e.Value).err

\* C8: the step in which DecodeDump fails puts the run into the fatal
\* state, and from then on the destination receives nothing more and the
\* run stays fatal - for every P and every interleaving.
C8_DecodeFailureAborts ==
    [][ /\ \A w \in Workers :
              (DecodeFails(w) /\ worker'[w] # worker[w]) => exit' = "fatal"
        /\ exit = "fatal" => (dest' = dest /\ wbuf' = wbuf /\ exit' = "fatal") ]_vars

\* the run died on entry f while a later entry was already on its way
C8_Witness ==
    /\ exit = "fatal"
    /\ parallel >= 2
    /\ \E w \in Workers :
         /\ worker[w].pc = "panic"
         /\ DecodeDump(worker[w].e.Value).err
         /\ \E i \in 1..Len(opipe) : opipe[i].seq > worker[w].e.seq
         /\ \A i \in 1..Len(dest) : dest[i].seq < worker[w].e.seq

\* "decode: done" has been logged
DoneLogged == \E i \in 1..Len(logged) : logged[i].msg = "decode: done"

C10_QueuesBounded ==
    [][ /\ Len(ipipe') <= parallel * QueueFactor
        /\ Len(opipe') <= parallel * QueueFactor
        /\ Len(ipipe) = parallel * QueueFactor => nread' = nread
        /\ Len(opipe) = parallel * QueueFactor =>
              \A w \in Workers : worker[w].pc = "send" => worker'[w].pc = "send" ]_vars

\* opipe is full and a worker waits to send while the Writer is idle
C10_Witness ==
    /\ Len(opipe) = parallel * QueueFactor
    /\ \E w \in Workers : worker[w].pc = "send"
    /\ writer.pc = "range"

\* ------------------------------------------------------------- claim C11
\* the writing goroutine has received every string of the closed opipe,
\* flushed the last one and closed wait
WriterFinished ==
    /\ waitClosed
    /\ ncloses > 0
    /\ opipe = <<>>
    /\ writer.pc = "exited"
    /\ wbuf = <<>>

\* C11: while the monitor has not seen the completion signal it stays in
\* its loop, where the next status line is always possible, and has logged
\* nothing final; it sees the signal only after the Writer has received
\* everything from the closed output queue and finished its last write;
\* having seen it, it emits exactly one status line and then "decode: done".
C11_MonitorEndsAfterWriter ==
    /\ ~monitor.done => monitor.pc = "select" /\ logged = <<>>
    /\ (Running /\ monitor.pc = "select") => ENABLED MonitorTimeout
    /\ monitor.done => WriterFinished
    /\ monitor.pc = "stat" => logged = <<>>
    /\ monitor.pc = "after" => Len(logged) = 1 /\ logged[1].msg = "decode: "
    /\ monitor.pc = "returned" =>
          /\ Len(logged) = 2
          /\ logged[1].msg = "decode: "
          /\ logged[2].msg = "decode: done"
          /\ exit = "ok"
    /\ DoneLogged => monitor.pc = "returned" /\ WriterFinished

C11_Witness ==
    /\ monitor.pc = "returned"
    /\ parallel >= 2
    /\ Len(written) >= 2
    /\ Len(logged) = 2

\* ------------------------------------------------------------- claim C12
\* what the monitor only observes
Observed == <<ipipe, opipe, rbytes, wbytes, nentry, dest>>

\* C12: every step of the monitor (the wait case, the timeout with its
\* status line, the last status line, "decode: done") leaves both queues,
\* the three counters and the destination unchanged, and the Loader, every
\* worker, the barrier and the Writer are each enabled after the step
\* exactly if they were enabled before it (a timeout step changes no
\* variable at all).
C12_MonitorIsPassive ==
    [][Monitor =>
          /\ UNCHANGED Observed
          /\ \/ UNCHANGED vars
             \/ /\ (ENABLED Loader)' = ENABLED Loader
                /\ \A w \in Workers : (ENABLED Worker(w))' = ENABLED Worker(w)
                /\ (ENABLED Barrier)' = ENABLED Barrier
                /\ (ENABLED Writer)' = ENABLED Writer]_vars

C12_Witness ==
    /\ monitor.pc = "after"
    /\ nentry >= 2
    /\ wbytes > 0
    /\ dest # <<>>

\* ------------------------------------------------------------- claim C13
\* the pipeline-level state: 0 Idle, 1 Running (the Loader has produced),
\* 2 Draining (ipipe closed), 3 Done (the Writer has signalled completion)
Phase ==
    IF waitClosed THEN 3
    ELSE IF ipipeClosed THEN 2
    ELSE IF nread > 0 THEN 1
    ELSE 0

\* worker w holds an entry it has received and not yet sent on
Holds(w) == worker[w].e.seq # 0

\* opipe is closed only with ipipe closed and empty and no worker holding
\* an entry; wait is closed only with opipe closed and empty
ClosedInOrder ==
    /\ ncloses > 0 =>
          /\ ipipeClosed
          /\ ipipe = <<>>
          /\ \A w \in Workers : ~Holds(w) /\ worker[w].pc = "exited"
    /\ waitClosed => ncloses > 0 /\ opipe = <<>> /\ writer.s.seq = 0

\* C13: the pipeline state never moves backwards through Idle, Running,
\* Draining, Done; the output queue is never closed while the input queue
\* is open or non-empty or a worker holds a record; Done is never reached
\* before the output queue is closed and empty.
C13_PhasesForward ==
    [][Phase' >= Phase /\ ClosedInOrder /\ ClosedInOrder']_vars

C13_Witness ==
    /\ Phase = 2
    /\ ncloses > 0
    /\ writer.s.seq # 0
    /\ opipe # <<>>
    /\ parallel >= 2

\* ------------------------------------------------------------- claim C14
\* t is as long as p, keeps p's bytes in '#'..'~' and has '.' elsewhere
Sanitized(p, t) ==
    /\ Len(t) = Len(p)
    /\ \A i \in 1..Len(p) :
          t[i] = (IF p[i] \in 35..126 THEN p[i] ELSE 46)

\* C14: every text form a worker has built - the key of each line, the
\* field of a hash line, the member of a set or sorted-set line - has the
\* length of the byte sequence it was built from and, position by
\* position, that byte if it is in '#'..'~' and '.' otherwise.
C14_TextForm ==
    \A w \in Workers :
       LET e == worker[w].e
           b == worker[w].b
       IN  \A i \in 1..Len(b) :
              /\ Sanitized(e.Key, b[i].Key)
              /\ e.Value.kind = "hash" => Sanitized(e.Value.elems[i].Field, b[i].Field)
              /\ e.Value.kind = "set" => Sanitized(e.Value.elems[i], b[i].Member)
              /\ e.Value.kind = "zset" => Sanitized(e.Value.elems[i].Member, b[i].Member)

C14_Witness ==
    \E w \in Workers :
       /\ worker[w].pc = "send"
       /\ worker[w].e.Value.kind = "set"
       /\ Len(worker[w].b) = 2
       /\ worker[w].e.Key = <<34, 35, 127>>
       /\ worker[w].b[1].Key = <<46, 35, 46>>
       /\ worker[w].b[1].Member = <<120, 46>>
       /\ worker[w].b[2].Member = <<35>>

\* ------------------------------------------------------------- claim C15
\* the lines of the source's record number n at the destination, in the
\* order in which the destination received them
LinesOf(n) ==
    LET FromRecord(line) == line.seq = n
    IN  SelectSeq(dest, FromRecord)

\* C15: for every record whose string has been flushed, its lines stand at
\* the destination in the order of the elements of its decoded value: the
\* i-th of them is the line built from the i-th element - whatever lines of
\* other records stand before, between or after.
C15_ElementOrder ==
    \A k \in 1..Len(written) :
       LET v == DecodeDump(source[written[k]].Value).o
           sub == LinesOf(written[k])
       IN  /\ Len(sub) = ItemCount(v)
           /\ \A i \in 1..Len(sub) : BuiltFrom(v, sub[i], i)

C15_Witness ==
    /\ parallel >= 2
    /\ \E k \in 1..Len(written) :
          /\ k < Len(written)
          /\ written[k] > written[k + 1]
          /\ Len(LinesOf(written[k + 1])) >= 2

\* ------------------------------------------------------------- claim C16
\* how many entries of the sequence q carry the number n
CountIn(q, n) == Cardinality({i \in 1..Len(q) : q[i].seq = n})

\* in how many places record n is: queued on ipipe, held by a worker,
\* queued on opipe, held by the Writer, flushed to the destination
Places(n) ==
    CountIn(ipipe, n)
    + Cardinality({w \in Workers : worker[w].e.seq = n})
    + CountIn(opipe, n)
    + (IF writer.s.seq = n THEN 1 ELSE 0)
    + Cardinality({k \in 1..Len(written) : written[k] = n})

\* C16: every record the Loader has put on ipipe is in exactly one place -
\* on ipipe, with one worker, on opipe, with the Writer or written - and no
\* other record is anywhere, so none is taken by two workers or written
\* twice; when the Writer has signalled completion, every record of the
\* source has been written, each exactly once.
C16_ExactlyOnce ==
    /\ \A n \in 1..Len(source) : Places(n) = (IF n <= nread THEN 1 ELSE 0)
    /\ \A k \in 1..Len(written) : written[k] \in 1..nread
    /\ waitClosed =>
          /\ Len(written) = Len(source)
          /\ \A n \in 1..Len(source) : \E k \in 1..Len(written) : written[k] = n

C16_Witness ==
    /\ waitClosed
    /\ parallel >= 2
    /\ Len(source) >= 3
    /\ Len(written) = Len(source)
    /\ written[1] # 1

\* ------------------------------------------------------------- claim C17
\* the string str holds lines of the record it was sent for, and no other
OneRecord(str) == \A i \in 1..Len(str.lines) : str.lines[i].seq = str.seq

\* C17: a record has at most one string on its way - queued on opipe or
\* held by the Writer - and that string holds all its lines and no line of
\* another record; so at the destination the lines of one record are
\* contiguous: between two lines of a record stands no line of another.
C17_RecordContiguous ==
    /\ \A i \in 1..Len(opipe) :
          /\ OneRecord(opipe[i])
          /\ Len(opipe[i].lines) = ItemCount(DecodeDump(source[opipe[i].seq].Value).o)
          /\ \A j \in 1..Len(opipe) : opipe[j].seq = opipe[i].seq => j = i
          /\ writer.s.seq # opipe[i].seq
    /\ OneRecord(writer.s)
    /\ \A i, j, k \in 1..Len(dest) :
          (i < j /\ j < k /\ dest[i].seq = dest[k].seq) => dest[j].seq = dest[i].seq

C17_Witness ==
    /\ parallel >= 2
    /\ \E j \in 3..(Len(dest) - 1) :
          /\ dest[j].seq = dest[j + 1].seq
          /\ dest[j - 1].seq > dest[j].seq
          /\ dest[j - 2].seq < dest[j].seq

\* ------------------------------------------------------------- claim C18
\* a later record has been written before an earlier one
OutOfOrder == \E i, j \in 1..Len(written) : i < j /\ written[i] > written[j]

\* C18: with P = 1 the k-th string written is that of the k-th record of
\* the source, and the lines at the destination follow the order of the
\* source; with P >= 2 this order is not kept in general - the state that
\* shows it is C18_Witness.
C18_SingleWorkerKeepsOrder ==
    parallel = 1 =>
       /\ \A k \in 1..Len(written) : written[k] = k
       /\ \A i, j \in 1..Len(dest) : i < j => dest[i].seq <= dest[j].seq
       /\ \A i \in 1..Len(opipe) :
             opipe[i].seq = Len(written) + (IF writer.s.seq # 0 THEN 1 ELSE 0) + i

C18_Witness ==
    /\ parallel >= 2
    /\ OutOfOrder
    /\ \E i, j \in 1..Len(dest) : i < j /\ dest[i].seq > dest[j].seq

\* ------------------------------------------------------------- claim C19
\* records the Loader has put on ipipe whose string the Writer has not
\* yet flushed
InFlight == nread - Len(written)

\* workers holding an entry
Holding == {w \in Workers : Holds(w)}

\* C19: the records in flight are those queued on ipipe, those held by a
\* worker (one each at most), those queued on opipe and the one the Writer
\* holds; neither queue holds more than P x 32, so there are never more
\* than 2 x (P x 32) + P + 1 of them.
C19_InFlightBounded ==
    /\ InFlight = Len(ipipe) + Cardinality(Holding) + Len(opipe)
                     + (IF writer.s.seq # 0 THEN 1 ELSE 0)
    /\ Len(ipipe) <= parallel * QueueFactor
    /\ Len(opipe) <= parallel * QueueFactor
    /\ Cardinality(Holding) <= parallel
    /\ InFlight <= 2 * (parallel * QueueFactor) + parallel + 1

\* the bound is met: both queues full, the worker and the Writer hold one
C19_Witness ==
    /\ InFlight = 2 * (parallel * QueueFactor) + parallel + 1
    /\ nread < Len(source)

\* ------------------------------------------------------------- claim C20
\* the three counters
Counters == <<rbytes, wbytes, nentry>>

\* the status line logged after the monitor saw wait closed reports N
\* records and the byte length of all lines at the destination - the
\* values the counters have and keep
FinalStatus(log) ==
    log # <<>> =>
       /\ log[1].msg = "decode: "
       /\ log[1].stat.nentry = Len(source)
       /\ log[1].stat.wbytes = ByteLen(dest)
       /\ log[1].stat = Stat

\* C20: once the Writer has closed wait, no step changes a counter or the
\* destination, and the status line the monitor logs after it saw wait
\* closed reports the final values: N records decoded and as many bytes
\* written as all lines at the destination are long.
C20_FinalStatus ==
    [][ /\ waitClosed => UNCHANGED <<Counters, dest>>
        /\ FinalStatus(logged)
        /\ FinalStatus(logged)' ]_vars

C20_Witness ==
    /\ Len(logged) = 2
    /\ parallel >= 2
    /\ logged[1].stat.nentry = 3
    /\ logged[1].stat.wbytes = ByteLen(dest)
    /\ logged[1].stat.wbytes > 0

====
